---- MODULE Spec2Model ----
(***************************************************************************)
(* Model of main.py: the Bezier segment collection edited through the      *)
(* canvas mouse handlers and the sidebar buttons, the hit tests and        *)
(* insertion rules they use, and the de Casteljau evaluator.               *)
(*                                                                         *)
(* Conventions.                                                            *)
(*  - A point is the record [x |-> , y |-> ] (the dict {"x":, "y":}).      *)
(*  - Sequences are 1-based here; the source's index k is k+1 here.        *)
(*  - The canvas has the fixed size 800x500 (setFixedSize), so             *)
(*    _mouse_to_logical scales by 1 and mouse positions are integers.      *)
(*  - math.hypot values are only ever compared with each other or with     *)
(*    HIT_R, so a distance is carried as its exact square: an integer for  *)
(*    dist, a fraction n/d for point_to_segment_distance.  Comparing the   *)
(*    squares is comparing the distances computed in exact arithmetic.     *)
(*  - t is carried in units of 1/TUnit (0.002 * speed is 2 * speed_slider  *)
(*    units).                                                              *)
(***************************************************************************)
EXTENDS Integers, Sequences, FiniteSets, TLC

(* ---- program constants ---- *)
HIT_R == 10

Pt(px, py) == [x |-> px, y |-> py]

EMPTY_START == << <<>> >>

DEFAULT_SEGMENT == << Pt(150, 350), Pt(350, 150), Pt(600, 350) >>

(* ---- bounds of the model ---- *)
MaxSegs == 2
MaxPts == 3
MaxTicks == 2

(* Mouse positions used for presses and moves: the first point of the     *)
(* default segment, a position at distance exactly HIT_R from it, and a   *)
(* position at the same distance (sqrt 50) from both.                     *)
Clicks == { Pt(150, 350), Pt(156, 358), Pt(149, 357) }

(* Mouse positions used together with the sliders and the timer. *)
CtlClicks == { Pt(149, 357) }

(* t slider values the user drags the slider to, speed slider values. *)
TSliderVals == { 0, 50, 100 }
SpeedVals == { 5, 10, 50 }
TUnit == 10000

(* de Casteljau inputs: control points, and t = k / TDen for k in TNums;   *)
(* segments of 1..MaxN points                                              *)
MaxN == 4
TDen == 4
TNums == { -1, 0, 1, 2, 4, 5 }
CtrlPts == { Pt(0, 0), Pt(4, 0), Pt(2, 6) }

(* _selected_point: a reference to a point object.  None, the position    *)
(* <<segment, index>> of the object in the collection, or Detached when    *)
(* the object is no longer part of the collection.                         *)
None == << 0, 0 >>
Detached == << -1, 0 >>

VARIABLES
    segments,      \* AppState.segments
    selected,      \* BezierCanvas._selected_point
    dragged,       \* the x, y held by the object _selected_point refers to
    t,             \* AppState.t, in units of 1/TUnit
    t_slider,      \* MainWindow.t_slider value, 0..100
    speed_slider,  \* MainWindow.speed_slider value, 5..50 (speed * 10)
    animate,       \* AppState.animate = chk_animate checked = timer active
    ticks,         \* number of timer ticks handled so far
    lastOp,        \* the handler that ran last
    lastPos,       \* the mouse position it was given
    psegs,         \* segments before it ran
    pctl,          \* <<t, animate>> before it ran
    cpoints,       \* the points argument of de_casteljau / de_casteljau_levels
    cinput,        \* the points as they were passed in
    ct,            \* the t argument, as the numerator k of k / TDen
    cresult,       \* << value returned by de_casteljau >>, <<>> before the call
    clevels        \* value returned by de_casteljau_levels, <<>> before the call

evars == << segments, selected, dragged, t, t_slider, speed_slider, animate, ticks,
            lastOp, lastPos, psegs, pctl >>

cvars == << cpoints, cinput, ct, cresult, clevels >>

vars == << evars, cvars >>

NoPos == Pt(-1, -1)

(* ---- helpers ---- *)
Abs(a) == IF a < 0 THEN -a ELSE a

RECURSIVE GCD(_, _)
GCD(a, b) == IF b = 0 THEN a ELSE GCD(b, a % b)

InsertAt(s, k, e) == SubSeq(s, 1, k - 1) \o << e >> \o SubSeq(s, k, Len(s))

RemoveAt(s, k) == SubSeq(s, 1, k - 1) \o SubSeq(s, k + 1, Len(s))

(* a distance as the fraction n/d of its square; d = 0 is float("inf") *)
Frac(n, d) == [n |-> n, d |-> d]

Inf == Frac(1, 0)

(* a/b < c/d for a, c >= 0 and b, d > 0, by continued fractions (no       *)
(* product is formed, so nothing overflows)                               *)
RECURSIVE RatLess(_, _, _, _)
RatLess(a, b, c, d) ==
    LET q1 == a \div b
        q2 == c \div d
        r1 == a % b
        r2 == c % d
    IN  IF q1 # q2 THEN q1 < q2
        ELSE IF r2 = 0 THEN FALSE
        ELSE IF r1 = 0 THEN TRUE
        ELSE RatLess(d, r2, b, r1)

(* the float comparison  f < g  of two distances *)
FracLess(f, g) ==
    IF f.d = 0 THEN FALSE
    ELSE IF g.d = 0 THEN TRUE
    ELSE RatLess(f.n, f.d, g.n, g.d)

(* dist(p, x, y), squared *)
dist(p, x, y) == (p.x - x) * (p.x - x) + (p.y - y) * (p.y - y)

(* point_to_segment_distance(p, a, b), squared: in the interior case the   *)
(* squared distance to the projection is cross^2 / c2, reduced by the gcd  *)
(* of the edge vector's components.                                        *)
point_to_segment_distance(p, a, b) ==
    LET vx == b.x - a.x
        vy == b.y - a.y
        wx == p.x - a.x
        wy == p.y - a.y
        c1 == vx * wx + vy * wy
        c2 == vx * vx + vy * vy
    IN  IF c1 <= 0 THEN Frac(dist(p, a.x, a.y), 1)
        ELSE IF c2 <= c1 THEN Frac(dist(p, b.x, b.y), 1)
        ELSE LET g == GCD(Abs(vx), Abs(vy))
                 ux == vx \div g
                 uy == vy \div g
                 cr == ux * wy - uy * wx
             IN  Frac(cr * cr, ux * ux + uy * uy)

(* ---- BezierCanvas._find_closest_point ---- *)
(* variant of the scan in which a later point at the same distance wins *)
RECURSIVE ClosestScanLastWins(_, _, _, _, _, _, _)
ClosestScanLastWins(segs, x, y, si, i, best, best_d) ==
    IF si > Len(segs) THEN [best |-> best, best_d |-> best_d]
    ELSE IF i > Len(segs[si])
    THEN ClosestScanLastWins(segs, x, y, si + 1, 1, best, best_d)
    ELSE LET d == Frac(dist(segs[si][i], x, y), 1)
         IN  IF ~FracLess(best_d, d)
             THEN ClosestScanLastWins(segs, x, y, si, i + 1, << si, i >>, d)
             ELSE ClosestScanLastWins(segs, x, y, si, i + 1, best, best_d)

(* the scan of lines 176-181 from point (si, i) on, carrying best/best_d   *)
RECURSIVE ClosestScan(_, _, _, _, _, _, _)
ClosestScan(segs, x, y, si, i, best, best_d) ==
    IF si > Len(segs) THEN [best |-> best, best_d |-> best_d]
    ELSE IF i > Len(segs[si]) THEN ClosestScan(segs, x, y, si + 1, 1, best, best_d)
    ELSE LET d == Frac(dist(segs[si][i], x, y), 1)
         IN  IF FracLess(d, best_d)
             THEN ClosestScan(segs, x, y, si, i + 1, << si, i >>, d)
             ELSE ClosestScan(segs, x, y, si, i + 1, best, best_d)

find_closest_point(segs, x, y) ==
    LET r == ClosestScan(segs, x, y, 1, 1, None, Inf)
    IN  IF ~FracLess(Frac(HIT_R * HIT_R, 1), r.best_d) THEN r.best ELSE None

(* ---- BezierCanvas._add_control_point ---- *)
(* lines 190-194: the edges of segment si from edge i on *)
RECURSIVE EdgeScan(_, _, _, _, _)
EdgeScan(seg, p, si, i, b) ==
    IF i > Len(seg) - 1 THEN b
    ELSE LET d == point_to_segment_distance(p, seg[i], seg[i + 1])
         IN  IF FracLess(d, b.best_d)
             THEN EdgeScan(seg, p, si, i + 1, [best_seg |-> si, best_d |-> d])
             ELSE EdgeScan(seg, p, si, i + 1, b)

(* variant without lines 195-199: only edges compete *)
SinglePointScanSkipped(seg, p, si, b) == b

(* lines 195-199: a one-point segment competes by the distance to its point *)
SinglePointScan(seg, p, si, b) ==
    IF Len(seg) = 1
    THEN LET d == Frac(dist(seg[1], p.x, p.y), 1)
         IN  IF FracLess(d, b.best_d) THEN [best_seg |-> si, best_d |-> d] ELSE b
    ELSE b

(* lines 189-199: the loop over the segments from segment si on *)
RECURSIVE SegScan(_, _, _, _)
SegScan(segs, p, si, b) ==
    IF si > Len(segs) THEN b
    ELSE SegScan(segs, p, si + 1,
                 SinglePointScan(segs[si], p, si, EdgeScan(segs[si], p, si, 1, b)))

(* lines 186-200: best_seg *)
best_seg(segs, x, y) ==
    SegScan(segs, Pt(x, y), 1, [best_seg |-> 1, best_d |-> Inf]).best_seg

(* variant returning the last minimal index *)
nearest_idx_last(seg, x, y) ==
    CHOOSE i \in 1..Len(seg) :
        /\ \A j \in 1..Len(seg) : dist(seg[i], x, y) <= dist(seg[j], x, y)
        /\ \A j \in (i + 1)..Len(seg) : dist(seg[j], x, y) > dist(seg[i], x, y)

(* line 204: min(range(len(seg)), key=...) returns the first minimal index *)
nearest_idx(seg, x, y) ==
    CHOOSE i \in 1..Len(seg) :
        /\ \A j \in 1..Len(seg) : dist(seg[i], x, y) <= dist(seg[j], x, y)
        /\ \A j \in 1..(i - 1) : dist(seg[j], x, y) > dist(seg[i], x, y)

(* variant inserting before the nearest point: seg.insert(idx, ...) *)
insert_pos_before(seg, x, y) ==
    IF Len(seg) = 0 THEN 1 ELSE nearest_idx(seg, x, y)

(* the 1-based position at which the new point ends up in the target *)
insert_pos(seg, x, y) ==
    IF Len(seg) = 0 THEN 1 ELSE nearest_idx(seg, x, y) + 1

add_control_point(segs, x, y) ==
    LET bs == best_seg(segs, x, y)
        seg == segs[bs]
    IN  [segs EXCEPT ![bs] = InsertAt(seg, insert_pos(seg, x, y), Pt(x, y))]

(* ---- BezierCanvas._remove_point ---- *)
(* variant of the scan without the guard on segments of 2 or fewer points *)
RECURSIVE RemoveScanUnguarded(_, _, _, _, _)
RemoveScanUnguarded(segs, x, y, si, i) ==
    IF si > Len(segs) THEN None
    ELSE IF i > Len(segs[si]) THEN RemoveScanUnguarded(segs, x, y, si + 1, 1)
    ELSE IF dist(segs[si][i], x, y) < HIT_R * HIT_R THEN << si, i >>
    ELSE RemoveScanUnguarded(segs, x, y, si, i + 1)

(* the position popped by lines 208-214, None when the loops run out *)
RECURSIVE RemoveScan(_, _, _, _, _)
RemoveScan(segs, x, y, si, i) ==
    IF si > Len(segs) THEN None
    ELSE IF Len(segs[si]) <= 2 \/ i > Len(segs[si]) THEN RemoveScan(segs, x, y, si + 1, 1)
    ELSE IF dist(segs[si][i], x, y) < HIT_R * HIT_R THEN << si, i >>
    ELSE RemoveScan(segs, x, y, si, i + 1)

remove_target(segs, x, y) == RemoveScan(segs, x, y, 1, 1)

remove_point(segs, x, y) ==
    LET r == remove_target(segs, x, y)
    IN  IF r = None THEN segs
        ELSE [segs EXCEPT ![r[1]] = RemoveAt(segs[r[1]], r[2])]

(* ---- lerp, de_casteljau, de_casteljau_levels ---- *)
(* lerp(a, b, t) for t = k / TDen.  A coordinate of interpolation round r  *)
(* is carried as its numerator over TDen^r, so lerp returns the numerator  *)
(* of (1 - t) * a + t * b over a denominator TDen times that of a and b.   *)
lerp(a, b, k) ==
    Pt((TDen - k) * a.x + k * b.x, (TDen - k) * a.y + k * b.y)

(* variant of the inner loop running from the high index down to i *)
RECURSIVE DcInnerDown(_, _, _, _)
DcInnerDown(tmp, k, i, last) ==
    IF i > last THEN tmp
    ELSE DcInnerDown([tmp EXCEPT ![last] = lerp(tmp[last], tmp[last + 1], k)], k, i, last - 1)

(* lines 53-54: the inner loop, in place on tmp, from index i to last *)
RECURSIVE DcInner(_, _, _, _)
DcInner(tmp, k, i, last) ==
    IF i > last THEN tmp
    ELSE DcInner([tmp EXCEPT ![i] = lerp(tmp[i], tmp[i + 1], k)], k, i + 1, last)

(* lines 52-54: rounds r .. n-1 *)
RECURSIVE DcOuter(_, _, _, _)
DcOuter(tmp, k, r, n) ==
    IF r > n - 1 THEN tmp
    ELSE DcOuter(DcInner(tmp, k, 1, n - r), k, r + 1, n)

de_casteljau(points, k) ==
    LET tmp == [i \in 1..Len(points) |-> Pt(points[i].x, points[i].y)]
    IN  DcOuter(tmp, k, 1, Len(points))[1]

(* line 62: next_row *)
next_row(cur, k) == [i \in 1..(Len(cur) - 1) |-> lerp(cur[i], cur[i + 1], k)]

(* lines 61-64: rounds r .. n-1 *)
RECURSIVE LevelsLoop(_, _, _, _, _)
LevelsLoop(levels, cur, k, r, n) ==
    IF r > n - 1 THEN levels
    ELSE LET nr == next_row(cur, k)
         IN  LevelsLoop(Append(levels, nr), nr, k, r + 1, n)

de_casteljau_levels(points, k) ==
    LET cur == [i \in 1..Len(points) |-> Pt(points[i].x, points[i].y)]
    IN  LevelsLoop(<< cur >>, cur, k, 1, Len(points))

(* ---- the reference held by the canvas across edits ---- *)
(* where the selected object is after a point was inserted at <<si, k>> *)
AfterInsert(sel, si, k) ==
    IF sel[1] = si /\ sel[2] >= k THEN << si, sel[2] + 1 >> ELSE sel

(* where it is after the point at <<si, k>> was popped *)
AfterRemove(sel, si, k) ==
    IF sel[1] # si THEN sel
    ELSE IF sel[2] = k THEN Detached
    ELSE IF sel[2] > k THEN << si, sel[2] - 1 >>
    ELSE sel

(* ---- initial state: AppState.__init__, BezierCanvas.__init__, sliders ---- *)
Init ==
    /\ segments = EMPTY_START
    /\ selected = None
    /\ dragged = NoPos
    /\ t = 0
    /\ t_slider = 0
    /\ speed_slider = 10
    /\ animate = FALSE
    /\ ticks = 0
    /\ lastOp = "init"
    /\ lastPos = NoPos
    /\ psegs = EMPTY_START
    /\ pctl = << 0, FALSE >>
    /\ cpoints = << >>
    /\ cinput = << >>
    /\ ct = 0
    /\ cresult = << >>
    /\ clevels = << >>

Hist(op, pos) ==
    /\ lastOp' = op
    /\ lastPos' = pos
    /\ psegs' = segments
    /\ pctl' = << t, animate >>
    /\ UNCHANGED cvars

(* ---- mousePressEvent, shift + left button ---- *)
ShiftClick(c) ==
    LET bs == best_seg(segments, c.x, c.y)
    IN  /\ Len(segments[bs]) < MaxPts
        /\ segments' = add_control_point(segments, c.x, c.y)
        /\ selected' = AfterInsert(selected, bs, insert_pos(segments[bs], c.x, c.y))
        /\ UNCHANGED dragged
        /\ Hist("add_point", c)
        /\ UNCHANGED << t, t_slider, speed_slider, animate, ticks >>

(* ---- mousePressEvent, right button ---- *)
RightClick(c) ==
    LET r == remove_target(segments, c.x, c.y)
    IN  /\ segments' = remove_point(segments, c.x, c.y)
        /\ selected' = IF r = None THEN selected ELSE AfterRemove(selected, r[1], r[2])
        /\ UNCHANGED dragged
        /\ Hist("remove_point", c)
        /\ UNCHANGED << t, t_slider, speed_slider, animate, ticks >>

(* ---- mousePressEvent, left button without shift ---- *)
LeftPress(c) ==
    /\ selected' = find_closest_point(segments, c.x, c.y)
    /\ dragged' = IF selected' = None THEN NoPos
                  ELSE segments[selected'[1]][selected'[2]]
    /\ Hist("press", c)
    /\ UNCHANGED << segments, t, t_slider, speed_slider, animate, ticks >>

(* ---- mouseMoveEvent ---- *)
(* variant without line 162: only x is written *)
MouseMoveXOnly(c) ==
    /\ segments' = IF selected = None \/ selected = Detached THEN segments
                   ELSE [segments EXCEPT ![selected[1]][selected[2]] = Pt(c.x, @.y)]
    /\ dragged' = IF selected = None THEN dragged ELSE Pt(c.x, dragged.y)
    /\ Hist("move", c)
    /\ UNCHANGED << selected, t, t_slider, speed_slider, animate, ticks >>

MouseMove(c) ==
    /\ segments' = IF selected = None \/ selected = Detached THEN segments
                   ELSE [segments EXCEPT ![selected[1]][selected[2]] = Pt(c.x, c.y)]
    /\ dragged' = IF selected = None THEN dragged ELSE Pt(c.x, c.y)
    /\ Hist("move", c)
    /\ UNCHANGED << selected, t, t_slider, speed_slider, animate, ticks >>

(* ---- mouseReleaseEvent, left button ---- *)
LeftRelease ==
    /\ selected' = None
    /\ dragged' = NoPos
    /\ Hist("release", NoPos)
    /\ UNCHANGED << segments, t, t_slider, speed_slider, animate, ticks >>

(* ---- MainWindow._add_segment ---- *)
add_segment ==
    /\ Len(segments) < MaxSegs
    /\ segments' = Append(segments, DEFAULT_SEGMENT)
    /\ UNCHANGED dragged
    /\ Hist("add_segment", NoPos)
    /\ UNCHANGED << selected, t, t_slider, speed_slider, animate, ticks >>

(* ---- MainWindow._remove_segment ---- *)
(* variant that pops without looking at the number of segments *)
remove_segment_unguarded ==
    /\ segments' = SubSeq(segments, 1, Len(segments) - 1)
    /\ selected' = IF selected[1] = Len(segments) THEN Detached ELSE selected
    /\ UNCHANGED dragged
    /\ Hist("remove_segment", NoPos)
    /\ UNCHANGED << t, t_slider, speed_slider, animate, ticks >>

remove_segment ==
    /\ segments' = IF Len(segments) > 1
                   THEN SubSeq(segments, 1, Len(segments) - 1)
                   ELSE segments
    /\ selected' = IF Len(segments) > 1 /\ selected[1] = Len(segments)
                   THEN Detached ELSE selected
    /\ UNCHANGED dragged
    /\ Hist("remove_segment", NoPos)
    /\ UNCHANGED << t, t_slider, speed_slider, animate, ticks >>

(* ---- MainWindow._reset (with the handlers setChecked/setValue trigger) ---- *)
(* variant without line 560: t changes only through t_slider.setValue(0) *)
reset_keeps_t ==
    /\ segments' = EMPTY_START
    /\ t' = IF t_slider # 0 THEN 0 ELSE t
    /\ animate' = FALSE
    /\ t_slider' = 0
    /\ selected' = IF selected = None THEN None ELSE Detached
    /\ UNCHANGED dragged
    /\ Hist("reset", NoPos)
    /\ UNCHANGED << speed_slider, ticks >>

reset ==
    /\ segments' = EMPTY_START
    /\ t' = 0
    /\ animate' = FALSE
    /\ t_slider' = 0
    /\ selected' = IF selected = None THEN None ELSE Detached
    /\ UNCHANGED dragged
    /\ Hist("reset", NoPos)
    /\ UNCHANGED << speed_slider, ticks >>

(* ---- MainWindow._on_animate_changed: the checkbox is toggled ---- *)
on_animate_changed ==
    /\ animate' = ~animate
    /\ UNCHANGED dragged
    /\ Hist("animate", NoPos)
    /\ UNCHANGED << segments, selected, t, t_slider, speed_slider, ticks >>

(* ---- MainWindow._on_speed_changed: the speed slider is moved to v ---- *)
on_speed_changed(v) ==
    /\ v # speed_slider
    /\ speed_slider' = v
    /\ UNCHANGED dragged
    /\ Hist("speed", NoPos)
    /\ UNCHANGED << segments, selected, t, t_slider, animate, ticks >>

(* ---- MainWindow._on_t_changed: the t slider is moved to v ---- *)
on_t_changed(v) ==
    /\ v # t_slider
    /\ t_slider' = v
    /\ t' = v * (TUnit \div 100)
    /\ UNCHANGED dragged
    /\ Hist("t_changed", NoPos)
    /\ UNCHANGED << segments, selected, speed_slider, animate, ticks >>

(* int(round(u / 100)) for u in units of 1/TUnit: round half to even *)
RoundPercent(u) ==
    LET q == u \div 100
        r == u % 100
    IN  IF r < 50 THEN q
        ELSE IF r > 50 THEN q + 1
        ELSE IF q % 2 = 0 THEN q ELSE q + 1

(* ---- MainWindow._animation_step: one timer tick ---- *)
animation_step ==
    LET t1 == t + 2 * speed_slider
        t2 == IF t1 > TUnit THEN 0 ELSE t1
        sv == RoundPercent(t2)
    IN  /\ animate
        /\ ticks < MaxTicks
        /\ ticks' = ticks + 1
        /\ t_slider' = sv
        /\ t' = IF sv # t_slider THEN sv * (TUnit \div 100) ELSE t2
        /\ UNCHANGED dragged
        /\ Hist("tick", NoPos)
        /\ UNCHANGED << segments, selected, speed_slider, animate >>

(* every handler; the mouse visits CtlClicks only *)
Next ==
    \/ \E c \in CtlClicks : ShiftClick(c)
    \/ \E c \in CtlClicks : RightClick(c)
    \/ \E c \in CtlClicks : LeftPress(c)
    \/ \E c \in CtlClicks : MouseMove(c)
    \/ LeftRelease
    \/ add_segment
    \/ remove_segment
    \/ reset
    \/ on_animate_changed
    \/ \E v \in SpeedVals : on_speed_changed(v)
    \/ \E v \in TSliderVals : on_t_changed(v)
    \/ animation_step

Spec == Init /\ [][Next]_vars

(* the editing operations on the collection; the mouse visits Clicks *)
NextEdit ==
    \/ \E c \in Clicks : ShiftClick(c)
    \/ \E c \in Clicks : RightClick(c)
    \/ \E c \in Clicks : LeftPress(c)
    \/ \E c \in Clicks : MouseMove(c)
    \/ LeftRelease
    \/ add_segment
    \/ remove_segment
    \/ reset

SpecEdit == Init /\ [][NextEdit]_vars

(* ---- the animation alone: the box is checked with the t slider at any   *)
(* value and the speed slider at any of its settings, then the timer runs *)
InitAnim ==
    /\ segments = EMPTY_START
    /\ selected = None
    /\ dragged = NoPos
    /\ t_slider \in 0..100
    /\ t = t_slider * (TUnit \div 100)
    /\ speed_slider \in 5..50
    /\ animate = TRUE
    /\ ticks = 0
    /\ lastOp = "init"
    /\ lastPos = NoPos
    /\ psegs = EMPTY_START
    /\ pctl = << t, FALSE >>
    /\ cpoints = << >>
    /\ cinput = << >>
    /\ ct = 0
    /\ cresult = << >>
    /\ clevels = << >>

NextAnim == animation_step

SpecAnim == InitAnim /\ [][NextAnim]_vars

(* ---- the evaluator applied to one segment and one t ---- *)
RECURSIVE SeqsOf(_, _)
SeqsOf(S, n) ==
    IF n = 0 THEN { << >> }
    ELSE LET shorter == SeqsOf(S, n - 1)
         IN  shorter \cup { Append(q, e) : q \in { w \in shorter : Len(w) = n - 1 }, e \in S }

InitLevels ==
    /\ segments = EMPTY_START
    /\ selected = None
    /\ dragged = NoPos
    /\ t = 0
    /\ t_slider = 0
    /\ speed_slider = 10
    /\ animate = FALSE
    /\ ticks = 0
    /\ lastOp = "init"
    /\ lastPos = NoPos
    /\ psegs = EMPTY_START
    /\ pctl = << 0, FALSE >>
    /\ cpoints \in { q \in SeqsOf(CtrlPts, MaxN) : Len(q) >= 1 }
    /\ cinput = cpoints
    /\ ct \in TNums
    /\ cresult = << >>
    /\ clevels = << >>

Evaluate ==
    /\ cresult = << >>
    /\ cresult' = << de_casteljau(cpoints, ct) >>
    /\ UNCHANGED << evars, cpoints, cinput, ct, clevels >>

EvaluateLevels ==
    /\ clevels = << >>
    /\ clevels' = de_casteljau_levels(cpoints, ct)
    /\ UNCHANGED << evars, cpoints, cinput, ct, cresult >>

NextLevels ==
    \/ Evaluate
    \/ EvaluateLevels

SpecLevels == InitLevels /\ [][NextLevels]_vars

(***************************************************************************)
(* Properties                                                              *)
(***************************************************************************)
(* positions <<segment, index>> of the points of a collection, scan order *)
AllPos(segs) ==
    UNION { { << si, i >> : i \in 1..Len(segs[si]) } : si \in 1..Len(segs) }

Before(a, b) == a[1] < b[1] \/ (a[1] = b[1] /\ a[2] < b[2])

First(S) == CHOOSE a \in S : \A b \in S : a = b \/ Before(a, b)

PointAt(segs, q) == segs[q[1]][q[2]]

D2(segs, q, pos) == dist(PointAt(segs, q), pos.x, pos.y)

PopAt(segs, q) == [segs EXCEPT ![q[1]] = RemoveAt(@, q[2])]

R2 == HIT_R * HIT_R

(* C1: the collection always holds at least one segment; remove_segment    *)
(* removes the last segment when two or more exist and changes nothing     *)
(* when exactly one remains.                                               *)
C1_AtLeastOneSegment ==
    /\ Len(segments) >= 1
    /\ lastOp = "remove_segment" =>
          IF Len(psegs) >= 2
          THEN segments = SubSeq(psegs, 1, Len(psegs) - 1)
          ELSE segments = psegs

C1_Witness ==
    /\ lastOp = "remove_segment"
    /\ Len(psegs) = 1
    /\ Len(psegs[1]) >= 1
    /\ segments = psegs

(* C2: remove_point never changes a segment that holds 2 or fewer points,  *)
(* wherever the click is, so no segment that had at least 2 points is left *)
(* with fewer than 2.                                                      *)
C2_SmallSegmentsImmune ==
    lastOp = "remove_point" =>
        /\ Len(segments) = Len(psegs)
        /\ \A si \in 1..Len(psegs) :
              /\ Len(psegs[si]) <= 2 => segments[si] = psegs[si]
              /\ Len(psegs[si]) >= 2 => Len(segments[si]) >= 2

C2_Witness ==
    /\ lastOp = "remove_point"
    /\ \E q \in AllPos(psegs) :
          /\ Len(psegs[q[1]]) = 2
          /\ D2(psegs, q, lastPos) < R2
    /\ segments = psegs

(* C3 as stated: remove_point removes exactly the first point, in scan     *)
(* order over the segments holding more than 2 points, whose distance to   *)
(* the click is at most hit_radius, and nothing only when there is none.   *)
C3_Candidates ==
    { q \in AllPos(psegs) : Len(psegs[q[1]]) > 2 /\ D2(psegs, q, lastPos) <= R2 }

C3_RemovesFirstWithinInclusive ==
    lastOp = "remove_point" =>
        IF C3_Candidates = { }
        THEN segments = psegs
        ELSE segments = PopAt(psegs, First(C3_Candidates))

(* C4: the left-click hit test returns a point iff the minimal distance    *)
(* from the click to any point is at most hit_radius; it is then a point   *)
(* at that minimal distance, the first such in segment-then-point order;   *)
(* otherwise the result is None.                                           *)
C4_Nearest ==
    { q \in AllPos(segments) :
        \A o \in AllPos(segments) : D2(segments, q, lastPos) <= D2(segments, o, lastPos) }

C4_HitTest ==
    lastOp = "press" =>
        IF C4_Nearest # { } /\ D2(segments, First(C4_Nearest), lastPos) <= R2
        THEN selected = First(C4_Nearest)
        ELSE selected = None

C4_Witness ==
    /\ lastOp = "press"
    /\ selected # None
    /\ Cardinality(C4_Nearest) >= 2
    /\ D2(segments, selected, lastPos) = R2

(* the segments add_point made one point longer *)
AddTargets == { ts \in 1..Len(psegs) : Len(segments[ts]) = Len(psegs[ts]) + 1 }

(* the edges <<i, i+1>> of seg at minimal point_to_segment_distance *)
NearestEdges(seg, pos) ==
    { i \in 1..(Len(seg) - 1) :
        \A j \in 1..(Len(seg) - 1) :
            ~FracLess(point_to_segment_distance(pos, seg[j], seg[j + 1]),
                      point_to_segment_distance(pos, seg[i], seg[i + 1])) }

(* the lowest index among the points of seg nearest to pos *)
LowestNearest(seg, pos) ==
    CHOOSE i \in 1..Len(seg) :
        /\ \A j \in 1..Len(seg) : dist(seg[i], pos.x, pos.y) <= dist(seg[j], pos.x, pos.y)
        /\ \A j \in 1..Len(seg) :
              dist(seg[j], pos.x, pos.y) = dist(seg[i], pos.x, pos.y) => i <= j

(* C5 as stated: in a target segment of at least 2 points the new point    *)
(* is inserted between the endpoints i, i+1 of the segment's nearest edge. *)
C5_InsertsInNearestEdge ==
    lastOp = "add_point" =>
        \A ts \in AddTargets :
            Len(psegs[ts]) >= 2 =>
                \E i \in NearestEdges(psegs[ts], lastPos) :
                    segments[ts] = InsertAt(psegs[ts], i + 1, lastPos)

(* C5 amended: in a target segment of at least 2 points the new point is   *)
(* inserted right after the nearest existing point j (lowest index among   *)
(* equally near): it is between old points j and j+1 when j is not the     *)
(* last point, which is inside the nearest edge when that edge starts at   *)
(* j, and it is past the end of the segment when j is the last point.      *)
C5_InsertsAfterNearestPoint ==
    lastOp = "add_point" =>
        \A ts \in AddTargets :
            Len(psegs[ts]) >= 2 =>
                LET old == psegs[ts]
                    new == segments[ts]
                    j == LowestNearest(old, lastPos)
                IN  /\ new[j + 1] = lastPos
                    /\ new[j] = old[j]
                    /\ j < Len(old) => new[j + 2] = old[j + 1]
                    /\ j = Len(old) => Len(new) = j + 1
                    /\ j \in NearestEdges(old, lastPos) =>
                          new = InsertAt(old, j + 1, lastPos)

C5_Witness ==
    /\ lastOp = "add_point"
    /\ \E ts \in AddTargets :
          /\ Len(psegs[ts]) >= 2
          /\ LowestNearest(psegs[ts], lastPos) = Len(psegs[ts])
          /\ segments[ts][Len(segments[ts])] = lastPos
          /\ \A i \in NearestEdges(psegs[ts], lastPos) :
                segments[ts] # InsertAt(psegs[ts], i + 1, lastPos)

(* C6: add_point inserts the new point immediately after the nearest       *)
(* existing point of the target segment (lowest index among equally near), *)
(* appends to a one-point segment, makes it the sole point of an empty     *)
(* one; the target grows by exactly one point, its existing points keep    *)
(* their order and coordinates, every other segment is unchanged.          *)
C6_Pos(seg, pos) == IF Len(seg) = 0 THEN 1 ELSE LowestNearest(seg, pos) + 1

C6_AddPoint ==
    lastOp = "add_point" =>
        \E ts \in 1..Len(psegs) :
            segments = [psegs EXCEPT ![ts] = InsertAt(psegs[ts], C6_Pos(psegs[ts], lastPos), lastPos)]

C6_Witness ==
    /\ lastOp = "add_point"
    /\ Len(psegs) = 2
    /\ \E ts \in AddTargets :
          /\ Len(psegs[ts]) >= 2
          /\ \E i, j \in 1..Len(psegs[ts]) :
                /\ i < j
                /\ psegs[ts][i] # psegs[ts][j]
                /\ dist(psegs[ts][i], lastPos.x, lastPos.y) = dist(psegs[ts][j], lastPos.x, lastPos.y)
                /\ LowestNearest(psegs[ts], lastPos) = i
          /\ segments[3 - ts] = psegs[3 - ts]
          /\ Len(psegs[3 - ts]) >= 1

(* the distance of the nearest edge of seg, Inf when seg has no edge *)
EdgeDist(seg, pos) ==
    IF Len(seg) < 2 THEN Inf
    ELSE LET i == CHOOSE e \in NearestEdges(seg, pos) : TRUE
         IN  point_to_segment_distance(pos, seg[i], seg[i + 1])

(* C7 as stated: whenever some segment has an edge, add_point inserts into *)
(* the segment containing the nearest edge of all, the lowest-indexed one  *)
(* among segments whose nearest edges are equally near.                    *)
C7_EdgeSegment ==
    CHOOSE si \in 1..Len(psegs) :
        /\ Len(psegs[si]) >= 2
        /\ \A sj \in 1..Len(psegs) :
              /\ ~FracLess(EdgeDist(psegs[sj], lastPos), EdgeDist(psegs[si], lastPos))
              /\ sj < si => FracLess(EdgeDist(psegs[si], lastPos), EdgeDist(psegs[sj], lastPos))

C7_TargetHasNearestEdge ==
    (lastOp = "add_point" /\ \E si \in 1..Len(psegs) : Len(psegs[si]) >= 2) =>
        AddTargets = { C7_EdgeSegment }

(* C7 amended: the candidates are the edges of all segments, by            *)
(* point_to_segment_distance, and the sole point of every one-point        *)
(* segment, by direct distance; whenever some segment has an edge,         *)
(* add_point inserts into the segment holding the nearest candidate, the   *)
(* lowest-indexed one among equally near segments.                         *)
CandDist(seg, pos) ==
    IF Len(seg) = 1 THEN Frac(dist(seg[1], pos.x, pos.y), 1) ELSE EdgeDist(seg, pos)

C7_CandSegment ==
    CHOOSE si \in 1..Len(psegs) :
        /\ Len(psegs[si]) >= 1
        /\ \A sj \in 1..Len(psegs) :
              /\ ~FracLess(CandDist(psegs[sj], lastPos), CandDist(psegs[si], lastPos))
              /\ sj < si => FracLess(CandDist(psegs[si], lastPos), CandDist(psegs[sj], lastPos))

C7_TargetHasNearestCandidate ==
    (lastOp = "add_point" /\ \E si \in 1..Len(psegs) : Len(psegs[si]) >= 2) =>
        AddTargets = { C7_CandSegment }

C7_Witness ==
    /\ lastOp = "add_point"
    /\ Len(psegs) = 2
    /\ Len(psegs[1]) = 1
    /\ Len(psegs[2]) >= 2
    /\ AddTargets = { 1 }
    /\ FracLess(CandDist(psegs[1], lastPos), CandDist(psegs[2], lastPos))

(* C8 as stated: whenever remove_point removes a point, no other control   *)
(* point of the collection is strictly nearer to the click.  It is taken   *)
(* in its weakest reading: only the points right click can delete (those   *)
(* of segments holding more than 2 points) are compared.                   *)
C8_RemovesNearest ==
    (lastOp = "remove_point" /\ segments # psegs) =>
        \E q \in AllPos(psegs) :
            /\ segments = PopAt(psegs, q)
            /\ \A o \in AllPos(psegs) :
                  Len(psegs[o[1]]) > 2 => D2(psegs, o, lastPos) >= D2(psegs, q, lastPos)

(* C9: reset leaves exactly one segment with zero points, t = 0 and the    *)
(* animation stopped, whatever was edited before and whether or not the    *)
(* animation was running.                                                  *)
C9_ResetRestoresInitial ==
    lastOp = "reset" =>
        /\ segments = << << >> >>
        /\ t = 0
        /\ animate = FALSE

C9_Witness ==
    /\ lastOp = "reset"
    /\ Len(psegs) = 2
    /\ Len(psegs[1]) >= 1
    /\ pctl[1] # 0
    /\ pctl[1] % 100 # 0
    /\ pctl[2] = TRUE
    /\ segments = << << >> >>

(* C10: for a segment of n+1 points (n >= 0) and any t,                    *)
(* de_casteljau_levels returns n+1 levels, level 0 the input points, level *)
(* r+1 the lerps of consecutive points of level r (so level r has n+1-r    *)
(* points), the last level the single point de_casteljau returns; neither  *)
(* function modifies the input points.                                     *)
C10_LevelTrace ==
    /\ cpoints = cinput
    /\ clevels # << >> =>
          /\ Len(clevels) = Len(cinput)
          /\ clevels[1] = cinput
          /\ \A r \in 1..Len(cinput) : Len(clevels[r]) = Len(cinput) + 1 - r
          /\ \A r \in 1..(Len(cinput) - 1) :
                \A i \in 1..(Len(cinput) - r) :
                    /\ clevels[r + 1][i].x =
                          (TDen - ct) * clevels[r][i].x + ct * clevels[r][i + 1].x
                    /\ clevels[r + 1][i].y =
                          (TDen - ct) * clevels[r][i].y + ct * clevels[r][i + 1].y
    /\ (clevels # << >> /\ cresult # << >>) => clevels[Len(clevels)] = cresult

C10_Witness ==
    /\ clevels # << >>
    /\ cresult # << >>
    /\ Len(cinput) >= 3
    /\ ct = 1
    /\ cinput[1] # cinput[2]
    /\ cinput[2] # cinput[3]
    /\ clevels[Len(clevels)] = cresult

(* C11 as stated: while animation is on, after the tick handler has run   *)
(* (slider update included) t is the value before the tick plus            *)
(* 0.002 * speed when that sum is at most 1, and 0 when it exceeds 1.      *)
C11_TickAdvances ==
    lastOp = "tick" =>
        LET sum == pctl[1] + 2 * speed_slider
        IN  t = IF sum <= TUnit THEN sum ELSE 0

(* C12 as stated: during a drag every mouse move sets the coordinates of   *)
(* exactly one point that belongs to the collection, the selected one, to  *)
(* the mouse position and leaves everything else unchanged, whatever was   *)
(* interleaved with the drag.                                              *)
C12_MoveWritesCollectionPoint ==
    (lastOp = "move" /\ selected # None) =>
        /\ selected \in AllPos(psegs)
        /\ segments = [psegs EXCEPT ![selected[1]][selected[2]] = lastPos]

(* C12 amended: during a drag every mouse move writes the selected point   *)
(* only.  While that point belongs to the collection the move sets exactly *)
(* its coordinates to the mouse position; once it was taken out of the     *)
(* collection (right-click removal, remove segment, reset) the move        *)
(* changes no point of the collection.  In both cases every other point,   *)
(* the number of segments and each segment's length and order are kept.    *)
(* The reference follows its object through insertions and removals: the   *)
(* point at the selected position always holds the object's coordinates.   *)
C12_SinglePointWrite ==
    /\ selected \in AllPos(segments) \cup { None, Detached }
    /\ selected \in AllPos(segments) => PointAt(segments, selected) = dragged
    /\ (lastOp = "move" /\ selected # None) =>
          /\ dragged = lastPos
          /\ IF selected \in AllPos(psegs)
             THEN segments = [psegs EXCEPT ![selected[1]][selected[2]] = lastPos]
             ELSE segments = psegs

C12_Witness ==
    /\ lastOp = "move"
    /\ selected = Detached
    /\ dragged = lastPos
    /\ Len(segments) = 2
    /\ Len(segments[1]) >= 2
    /\ \A q \in AllPos(segments) : PointAt(segments, q) # lastPos
    /\ segments = psegs

====
